---- MODULE Spec2Model ----
(***************************************************************************)
(* Handle ownership and lifetime guards of winsafe.                        *)
(*                                                                         *)
(* Four state machines share this module, one per resource family:         *)
(*   SpecHandles  plain handles: HFILEMAP, HFILEMAPVIEW, GDI objects       *)
(*   SpecCom      CoInitializeEx / CoLockObjectExternal and their guards   *)
(*   SpecMem      CoTaskMemAlloc / CoTaskMemRealloc / CoTaskMemFree        *)
(*   SpecRef      reference counted COM wrappers (ITaskbarList3)           *)
(* The native layer (kernel32, gdi32, ole32) is the environment: what a    *)
(* native primitive returns is an input of the action that calls it, and   *)
(* what the wrapper passes to it is recorded in the state.                 *)
(***************************************************************************)
EXTENDS Integers, Sequences, FiniteSets, TLC

\* ---------------------------------------------------------------- bounds
MaxPtr == 1        \* pointer values are 0..MaxPtr, 0 the null pointer
MaxError == 1      \* last-error codes are 0..MaxError
MaxCalls == 2      \* release calls in one run
MaxMap == 1        \* bytes of the backing file

\* ------------------------------------------------------------ state
VARIABLES
  lastError,     \* the thread's last-error value
  \* plain handles
  held,          \* the handle values the caller holds (handles are Copy)
  releaseCalls,  \* handle value -> native release invocations on it
  usedAfter,     \* handle values used through the wrapper after a release
  everMapped,    \* addresses the native map primitive has returned
  hret,          \* the last wrapper call: operation, arguments, result
  \* COM guards
  pc,            \* "running", "unwinding" (the scope is being left) or "done"
  exitKind,      \* how the scope was left: "none", "end" or "early"
  locals,        \* the guards the scope owns, in declaration order (call ids)
  calls,         \* one record per acquisition call made in the scope
  nUninit,       \* native CoUninitialize invocations
  lockCount,     \* object -> external locks the native layer holds on it
  \* task memory
  mpc,           \* "running" or "done" (the caller's scope has ended)
  heap,          \* block -> "unused", "live", "freed" or "moved" (by realloc)
  ptrs,          \* the raw pointers the caller holds (pointers are Copy)
  freeCalls,     \* pointer -> native CoTaskMemFree invocations on it
  callerFrees,   \* pointer -> CoTaskMemFree(pv) calls made: by the caller on a
                 \* pointer it holds, by StringFromCLSID on its own block
  mret,          \* the last wrapper call: operation, arguments, result
                 \* (and for StringFromCLSID its status and steps)
  strBlocks,     \* the blocks the native StringFromCLSID has allocated
  \* COM references
  refCount,      \* object -> the native reference count
  objState,      \* object -> "none", "alive" or "destroyed"
  extRefs,       \* object -> references held by code outside the wrapper
  refs,          \* ITaskbarList3 value -> how many of it are live
  deadCalls,     \* native calls the wrapper made on a destroyed object
  rret           \* the last wrapper operation and the count around it

hvars == <<held, releaseCalls, usedAfter, everMapped, hret>>
cvars == <<pc, exitKind, locals, calls, nUninit, lockCount>>
mvars == <<mpc, heap, ptrs, freeCalls, callerFrees, mret, strBlocks>>
rvars == <<refCount, objState, extRefs, refs, deadCalls, rret>>
vars == <<lastError, hvars, cvars, mvars, rvars>>
\* what the operations of one family leave alone
notHandles == <<cvars, mvars, rvars>>
notCom == <<lastError, hvars, mvars, rvars>>
notMem == <<hvars, cvars, rvars>>
notRef == <<lastError, hvars, cvars, mvars>>

\* ------------------------------------------------------------- results
\* WinResult<T> / HrResult<T>: Ok(v) or Err(code). Ok(()) carries 0.
Ok(v) == [tag |-> "Ok", val |-> v]
Err(e) == [tag |-> "Err", val |-> e]
OkUnit == [tag |-> "Ok", val |-> 0]
NoResult == [tag |-> "None", val |-> 0]

\* co::ERROR::SUCCESS
ERROR_SUCCESS == 0
\* The null pointer, Handle::NULL
NULL == 0

ErrorCodes == 0..MaxError
\* BOOL as the native layer returns it: zero, or any non-zero value
NativeBools == {0, 1, 2}

\* ============================================================ handles

HFILEMAP(p) == [kind |-> "HFILEMAP", ptr |-> p]
HFILEMAPVIEW(p) == [kind |-> "HFILEMAPVIEW", ptr |-> p]
HGDIOBJ(p) == [kind |-> "HGDIOBJ", ptr |-> p]

HandleKinds == {"HFILEMAP", "HFILEMAPVIEW", "HGDIOBJ"}
AllPtrs == 0..MaxPtr
HandleValues == [kind : HandleKinds, ptr : AllPtrs]

\* Handle::as_ptr
as_ptr(h) == h.ptr
\* Handle::is_null
is_null(h) == as_ptr(h) = NULL

\* Handle: Copy. A method taking `self` by value receives a copy, and the
\* caller's binding stays usable: the set of held values after the call.
MovedByValue(hs, h) == hs \ {h}
CopiedByValue(hs, h) == hs

\* privs::bool_to_winresult, GetLastError() sampled after the call
bool_to_winresult(expr, le) == IF expr = 0 THEN Err(le) ELSE OkUnit

\* HandleGdi::DeleteObject on the native return and the last-error it leaves
DeleteObject_trustBool(ret, le) == IF ret = 0 THEN Err(le) ELSE OkUnit
DeleteObject(ret, le) ==
  IF ret = 0
    THEN (IF le = ERROR_SUCCESS THEN OkUnit ELSE Err(le))
    ELSE OkUnit

\* HandleClose::CloseHandle
CloseHandle(ret, le) == bool_to_winresult(ret, le)

\* HFILEMAPVIEW::UnmapViewOfFile
UnmapViewOfFile(ret, le) == bool_to_winresult(ret, le)

\* A u64 is four 16-bit limbs, most significant first (TLC's integers are
\* 32 bits wide); a u32 is two. funcs::HIDWORD is (v >> 32) as u32,
\* funcs::LODWORD is (v & 0xffff_ffff) as u32.
HIDWORD(v) == <<v[1], v[2]>>
LODWORD(v) == <<v[3], v[4]>>

\* Option<i64>: None, or Some(n)
None == [some |-> FALSE, v |-> 0]
Some(n) == [some |-> TRUE, v |-> n]
\* Option<i64>::unwrap_or_default
unwrap_or_default(o) == IF o.some THEN o.v ELSE 0

\* The argument list HFILEMAP::MapViewOfFile hands to kernel32::MapViewOfFile
MapViewOfFileArgs_lowFirst(self, access, offset, nbytes) ==
  <<self.ptr, access, LODWORD(offset), HIDWORD(offset), unwrap_or_default(nbytes)>>
MapViewOfFileArgs(self, access, offset, nbytes) ==
  <<self.ptr, access, HIDWORD(offset), LODWORD(offset), unwrap_or_default(nbytes)>>

\* HFILEMAP::MapViewOfFile on the address the native call returned:
\* as_mut() is None for null, map wraps, ok_or_else samples GetLastError
MapViewOfFile_wrapNull(addr, le) == Ok(HFILEMAPVIEW(addr))
MapViewOfFile(addr, le) ==
  IF addr # NULL THEN Ok(HFILEMAPVIEW(addr)) ELSE Err(le)

\* The bytes really mapped at an address: the backing file
TrueSize == MaxMap

\* HFILEMAPVIEW::as_slice / as_mut_slice: slice::from_raw_parts(self.0, len)
as_slice_clamped(self, len) ==
  [ptr |-> self.ptr, len |-> IF len > TrueSize THEN TrueSize ELSE len, mut |-> FALSE]
as_slice(self, len) == [ptr |-> self.ptr, len |-> len, mut |-> FALSE]
as_mut_slice(self, len) == [ptr |-> self.ptr, len |-> len, mut |-> TRUE]

Offsets == {<<0, 0, 0, 0>>, <<0, 0, 65535, 65535>>, <<0, 1, 0, 0>>,
            <<1, 2, 3, 4>>, <<65535, 65535, 65535, 65535>>}
SomeBytes == {None} \cup {Some(n) : n \in 1..MaxMap}
\* requested lengths go past the bytes really mapped
Lengths == 0..(TrueSize + 1)

RECURSIVE SumOver(_, _)
SumOver(f, S) ==
  IF S = {} THEN 0
  ELSE LET x == CHOOSE y \in S : TRUE IN f[x] + SumOver(f, S \ {x})
\* native release invocations so far, on any handle value
TotalReleases == SumOver(releaseCalls, HandleValues)

\* The caller holds a file-mapping handle and a GDI object handle
HInitAt(p) ==
  /\ held = {HFILEMAP(p), HGDIOBJ(p)}
  /\ releaseCalls = [h \in HandleValues |-> 0]
  /\ usedAfter = {}
  /\ everMapped = {}
  /\ lastError = ERROR_SUCCESS
  /\ hret = [op |-> "none", self |-> HFILEMAP(NULL), native |-> 0,
             args |-> <<>>, res |-> NoResult]

HInit == \E p \in 0..MaxPtr : HInitAt(p)

\* hmap.CloseHandle()
Call_CloseHandle ==
  \E h \in held, ret \in NativeBools, le \in ErrorCodes :
    /\ h.kind = "HFILEMAP"
    /\ TotalReleases < MaxCalls
    /\ releaseCalls' = [releaseCalls EXCEPT ![h] = @ + 1]
    /\ lastError' = le
    /\ held' = CopiedByValue(held, h)
    /\ hret' = [op |-> "CloseHandle", self |-> h, native |-> ret,
                args |-> <<as_ptr(h)>>, res |-> CloseHandle(ret, le)]
    /\ UNCHANGED <<usedAfter, everMapped>>
    /\ UNCHANGED notHandles

\* hgdi.DeleteObject()
Call_DeleteObject ==
  \E h \in held, ret \in NativeBools, le \in ErrorCodes :
    /\ h.kind = "HGDIOBJ"
    /\ TotalReleases < MaxCalls
    /\ releaseCalls' = [releaseCalls EXCEPT ![h] = @ + 1]
    /\ lastError' = le
    /\ held' = CopiedByValue(held, h)
    /\ hret' = [op |-> "DeleteObject", self |-> h, native |-> ret,
                args |-> <<as_ptr(h)>>, res |-> DeleteObject(ret, le)]
    /\ UNCHANGED <<usedAfter, everMapped>>
    /\ UNCHANGED notHandles

\* view.UnmapViewOfFile()
Call_UnmapViewOfFile ==
  \E h \in held, ret \in NativeBools, le \in ErrorCodes :
    /\ h.kind = "HFILEMAPVIEW"
    /\ TotalReleases < MaxCalls
    /\ releaseCalls' = [releaseCalls EXCEPT ![h] = @ + 1]
    /\ lastError' = le
    /\ held' = CopiedByValue(held, h)
    /\ hret' = [op |-> "UnmapViewOfFile", self |-> h, native |-> ret,
                args |-> <<h.ptr>>, res |-> UnmapViewOfFile(ret, le)]
    /\ UNCHANGED <<usedAfter, everMapped>>
    /\ UNCHANGED notHandles

\* hmap.MapViewOfFile(access, offset, nbytes). The native primitive returns
\* null or the address of a new view; an address names one view for good.
Call_MapViewOfFile ==
  \E h \in held, offset \in Offsets, nbytes \in SomeBytes,
     addr \in {NULL} \cup ((1..MaxPtr) \ everMapped), le \in ErrorCodes :
    /\ h.kind = "HFILEMAP"
    /\ LET r == MapViewOfFile(addr, le) IN
         /\ hret' = [op |-> "MapViewOfFile", self |-> h, native |-> addr,
                     args |-> MapViewOfFileArgs(h, 4, offset, nbytes), res |-> r,
                     offset |-> offset]
         /\ held' = IF r.tag = "Ok"
                      THEN CopiedByValue(held, h) \cup {r.val}
                      ELSE CopiedByValue(held, h)
    /\ everMapped' = everMapped \cup ({addr} \ {NULL})
    /\ lastError' = le
    /\ usedAfter' = IF releaseCalls[h] > 0 THEN usedAfter \cup {h} ELSE usedAfter
    /\ UNCHANGED releaseCalls
    /\ UNCHANGED notHandles

\* view.as_slice(len)
Call_as_slice ==
  \E h \in held, len \in Lengths :
    /\ h.kind = "HFILEMAPVIEW"
    /\ hret' = [op |-> "as_slice", self |-> h, native |-> 0,
                args |-> <<len>>, res |-> Ok(as_slice(h, len))]
    /\ held' = CopiedByValue(held, h)
    /\ usedAfter' = IF releaseCalls[h] > 0 THEN usedAfter \cup {h} ELSE usedAfter
    /\ UNCHANGED <<releaseCalls, everMapped, lastError>>
    /\ UNCHANGED notHandles

\* view.as_mut_slice(len)
Call_as_mut_slice ==
  \E h \in held, len \in Lengths :
    /\ h.kind = "HFILEMAPVIEW"
    /\ hret' = [op |-> "as_mut_slice", self |-> h, native |-> 0,
                args |-> <<len>>, res |-> Ok(as_mut_slice(h, len))]
    /\ held' = CopiedByValue(held, h)
    /\ usedAfter' = IF releaseCalls[h] > 0 THEN usedAfter \cup {h} ELSE usedAfter
    /\ UNCHANGED <<releaseCalls, everMapped, lastError>>
    /\ UNCHANGED notHandles

\* ------------------------------------------------- claims on handles
\* C1: HandleGdi::DeleteObject gives Ok(()) for a non-zero native return,
\* Ok(()) for a zero return with last-error ERROR::SUCCESS, and Err(code) for
\* a zero return with any other last-error code; nothing else.
C1_DeleteObjectMapping ==
  hret.op = "DeleteObject" =>
    /\ hret.native # 0 => hret.res = OkUnit
    /\ (hret.native = 0 /\ lastError = ERROR_SUCCESS) => hret.res = OkUnit
    /\ (hret.native = 0 /\ lastError # ERROR_SUCCESS) => hret.res = Err(lastError)
    /\ hret.res \in {OkUnit} \cup {Err(e) : e \in ErrorCodes \ {ERROR_SUCCESS}}

C1_Witness ==
  /\ hret.op = "DeleteObject"
  /\ hret.native = 0
  /\ lastError = ERROR_SUCCESS
  /\ hret.res = OkUnit

\* C2 as stated: no handle value has a release primitive invoked on it twice,
\* and none is used through the wrapper after its release.
C2_SingleUse ==
  /\ \A h \in HandleValues : releaseCalls[h] <= 1
  /\ usedAfter = {}

\* C2 as amended: handles are Copy, so a release leaves the caller holding
\* the value; every released handle value is still held (and so can be
\* released or used again: single use is the caller's contract).
C2_ReleasedStillHeld ==
  \A h \in HandleValues : releaseCalls[h] > 0 => h \in held

C2_Witness ==
  \E h \in held : releaseCalls[h] = 2 /\ h.kind = "HFILEMAP" /\ h \in usedAfter

\* C6: CloseHandle and UnmapViewOfFile give Ok(()) exactly for a non-zero
\* native return and Err(last-error) for zero; MapViewOfFile gives Ok(view
\* at the returned address) exactly for a non-null address and
\* Err(last-error) for null, and no view wraps the null address.
C6_FailureSurfaced ==
  /\ hret.op \in {"CloseHandle", "UnmapViewOfFile"} =>
       /\ hret.native # 0 => hret.res = OkUnit
       /\ hret.native = 0 => hret.res = Err(lastError)
  /\ hret.op = "MapViewOfFile" =>
       /\ hret.native # NULL =>
            /\ hret.res.tag = "Ok"
            /\ hret.res.val = HFILEMAPVIEW(hret.native)
            /\ hret.res.val \in held
       /\ hret.native = NULL =>
            /\ hret.res.tag = "Err"
            /\ hret.res.val = lastError
  /\ \A h \in held : h.kind = "HFILEMAPVIEW" => ~is_null(h)

C6_Witness ==
  /\ hret.op = "MapViewOfFile"
  /\ hret.native = NULL
  /\ hret.res.tag = "Err"
  /\ lastError # ERROR_SUCCESS
  /\ \A h \in held : h.kind # "HFILEMAPVIEW"

\* C10: as_slice(len) and as_mut_slice(len) validate nothing: the byte view
\* starts at the view's address and has length exactly len, also for len
\* greater than the bytes really mapped.
C10_SliceUnchecked ==
  hret.op \in {"as_slice", "as_mut_slice"} =>
    /\ hret.res.tag = "Ok"
    /\ hret.res.val.ptr = hret.self.ptr
    /\ hret.res.val.len = hret.args[1]
    /\ hret.res.val.mut = (hret.op = "as_mut_slice")

C10_Witness ==
  /\ hret.op = "as_slice"
  /\ hret.args[1] > TrueSize
  /\ hret.res.val.len = hret.args[1]

\* The value of a number given as 16-bit limbs, most significant first,
\* modulo m (m below 2^15, so that no step leaves 32 bits)
RECURSIVE ModVal(_, _)
ModVal(limbs, m) ==
  IF limbs = <<>> THEN 0
  ELSE (ModVal(SubSeq(limbs, 1, Len(limbs) - 1), m) * 65536 + limbs[Len(limbs)]) % m
\* 2^32 modulo m
Pow32Mod(m) == ((65536 % m) * (65536 % m)) % m
\* Five primes whose product is above 2^64: two numbers below 2^64 that
\* agree modulo each of them are equal
Moduli == {32749, 32719, 32717, 32713, 32707}
IsU32(w) == Len(w) = 2 /\ \A i \in 1..2 : w[i] \in 0..65535

\* C11: MapViewOfFile passes the 64-bit offset to the native map primitive
\* as two 32-bit halves, the high half first and the low half second, with
\* high = offset div 2^32, low = offset mod 2^32 and
\* high * 2^32 + low = offset.
C11_OffsetSplit ==
  hret.op = "MapViewOfFile" =>
    LET high == hret.args[3]
        low == hret.args[4]
        off == hret.offset IN
      /\ IsU32(high) /\ IsU32(low)
      /\ high = <<off[1], off[2]>>
      /\ low = <<off[3], off[4]>>
      /\ \A m \in Moduli :
           (ModVal(high, m) * Pow32Mod(m) + ModVal(low, m)) % m = ModVal(off, m)

C11_Witness ==
  /\ hret.op = "MapViewOfFile"
  /\ hret.offset = <<1, 2, 3, 4>>
  /\ hret.args[3] = <<1, 2>>
  /\ hret.args[4] = <<3, 4>>

\* ======================================================= COM guards
\* co::HRESULT values, as the signed 32-bit status the native call returns
S_OK == 0
S_FALSE == 1
RPC_E_CHANGED_MODE == -2147417850
E_OUTOFMEMORY == -2147024882
\* statuses the native layer can answer with (the last is E_INVALIDARG)
InitStatuses == {S_OK, S_FALSE, RPC_E_CHANGED_MODE, E_OUTOFMEMORY, -2147024809}
LockStatuses == {S_OK, S_FALSE, -2147024809}
\* co::COINIT::MULTITHREADED, co::COINIT::APARTMENTTHREADED
CoInitFlags == {0, 2}

MaxComCalls == 2   \* acquisitions in one scope
MaxObj == 2        \* COM objects are 1..MaxObj


Objects == 1..MaxObj

\* co::HRESULT::from_raw wraps the 32 bits of the status unchanged
from_raw(raw) == raw

\* ole::privs::ok_to_hrresult
ok_to_hrresult(raw) ==
  IF from_raw(raw) = S_OK THEN OkUnit ELSE Err(from_raw(raw))

\* ole::guard::CoUninitializeGuard::new
CoUninitializeGuard_new(hr) == [kind |-> "CoUninitializeGuard", hr |-> hr, obj |-> NULL]
\* ole::guard::CoLockObjectExternalGuard::new
CoLockObjectExternalGuard_new(obj) ==
  [kind |-> "CoLockObjectExternalGuard", hr |-> S_OK, obj |-> obj]
NoGuard == [kind |-> "none", hr |-> S_OK, obj |-> NULL]

\* Drop of a guard: the native release calls it makes, their results ignored.
\* CoUninitializeGuard calls CoUninitialize(); CoLockObjectExternalGuard
\* calls CoLockObjectExternal(obj, FALSE, ..) on the object it holds.
GuardDrop(g) ==
  IF g.kind = "CoUninitializeGuard" THEN <<[fn |-> "CoUninitialize", obj |-> NULL]>>
  ELSE IF g.kind = "CoLockObjectExternalGuard"
    THEN <<[fn |-> "CoLockObjectExternal", obj |-> g.obj]>>
  ELSE <<>>

\* CoInitializeEx on the status the native call returned: the result, the
\* guard inside it, and how many guards the call constructed
CoInitializeEx_guardFirst(raw) ==
  LET hr == from_raw(raw) IN
  IF hr \in {S_OK, S_FALSE, RPC_E_CHANGED_MODE}
    THEN [ok |-> TRUE, err |-> S_OK, guard |-> CoUninitializeGuard_new(hr), made |-> 1]
    ELSE [ok |-> FALSE, err |-> hr, guard |-> NoGuard, made |-> 1]
CoInitializeEx_changedModeFails(raw) ==
  LET hr == from_raw(raw) IN
  IF hr \in {S_OK, S_FALSE}
    THEN [ok |-> TRUE, err |-> S_OK, guard |-> CoUninitializeGuard_new(hr), made |-> 1]
    ELSE [ok |-> FALSE, err |-> hr, guard |-> NoGuard, made |-> 0]
CoInitializeEx(raw) ==
  LET hr == from_raw(raw) IN
  IF hr \in {S_OK, S_FALSE, RPC_E_CHANGED_MODE}
    THEN [ok |-> TRUE, err |-> S_OK, guard |-> CoUninitializeGuard_new(hr), made |-> 1]
    ELSE [ok |-> FALSE, err |-> hr, guard |-> NoGuard, made |-> 0]

\* The arguments CoLockObjectExternal hands to ole::ffi::CoLockObjectExternal
CoLockObjectExternalArgs_unlock(obj) == <<obj, 0, 0>>
CoLockObjectExternalArgs(obj) == <<obj, 1, 0>>

\* CoLockObjectExternal on the status the native call returned
CoLockObjectExternal(obj, raw) ==
  LET r == ok_to_hrresult(raw) IN
  IF r.tag = "Ok"
    THEN [ok |-> TRUE, err |-> S_OK, guard |-> CoLockObjectExternalGuard_new(obj), made |-> 1]
    ELSE [ok |-> FALSE, err |-> r.val, guard |-> NoGuard, made |-> 0]

CInit ==
  /\ pc = "running"
  /\ exitKind = "none"
  /\ locals = <<>>
  /\ calls = <<>>
  /\ nUninit = 0
  /\ lockCount = [o \in Objects |-> 0]

\* The record of one acquisition call. `released` lists the objects of the
\* native release calls made by dropping the guards this call constructed.
CallRecord(fn, arg, raw, nargs, r, released) ==
  [fn |-> fn, arg |-> arg, raw |-> raw, nargs |-> nargs, ok |-> r.ok,
   err |-> r.err, guard |-> r.guard, made |-> r.made, released |-> released]

\* let g = CoInitializeEx(coinit);  a guard the call constructs and does not
\* return is dropped before the call returns
Call_CoInitializeEx ==
  \E coinit \in CoInitFlags, raw \in InitStatuses :
    /\ pc = "running"
    /\ Len(calls) < MaxComCalls
    /\ LET r == CoInitializeEx(raw)
           temp == IF r.ok THEN r.made - 1 ELSE r.made IN
         /\ calls' = Append(calls,
              CallRecord("CoInitializeEx", coinit, raw, <<NULL, coinit>>, r,
                         [i \in 1..temp |-> NULL]))
         /\ locals' = IF r.ok THEN Append(locals, Len(calls) + 1) ELSE locals
         /\ nUninit' = nUninit + temp
    /\ UNCHANGED <<pc, exitKind, lockCount>>
    /\ UNCHANGED notCom

\* let g = CoLockObjectExternal(&obj);  the native layer takes the lock when
\* it is asked to lock and answers S_OK
Call_CoLockObjectExternal ==
  \E obj \in Objects, raw \in LockStatuses :
    /\ pc = "running"
    /\ Len(calls) < MaxComCalls
    /\ LET r == CoLockObjectExternal(obj, raw)
           nargs == CoLockObjectExternalArgs(obj) IN
         /\ calls' = Append(calls,
              CallRecord("CoLockObjectExternal", obj, raw, nargs, r, <<>>))
         /\ locals' = IF r.ok THEN Append(locals, Len(calls) + 1) ELSE locals
         /\ lockCount' = IF raw = S_OK
                           THEN [lockCount EXCEPT ![nargs[1]] =
                                   IF nargs[2] # 0 THEN @ + 1 ELSE @ - 1]
                           ELSE lockCount
    /\ UNCHANGED <<pc, exitKind, nUninit>>
    /\ UNCHANGED notCom

\* The effect of dropping the guard of call i on the native layer and on the
\* call's record
DropEffect(i) ==
  LET rel == GuardDrop(calls[i].guard)
      objs == [k \in 1..Len(rel) |-> rel[k].obj] IN
    /\ calls' = [calls EXCEPT ![i].released = @ \o objs]
    /\ nUninit' = nUninit + Cardinality({k \in 1..Len(rel) : rel[k].fn = "CoUninitialize"})
    /\ lockCount' = [o \in Objects |->
         lockCount[o] - Cardinality({k \in 1..Len(rel) :
                          rel[k].fn = "CoLockObjectExternal" /\ rel[k].obj = o})]

\* drop(g): explicit early disposal of one guard the scope owns
Drop_Guard ==
  \E k \in 1..Len(locals) :
    /\ pc = "running"
    /\ DropEffect(locals[k])
    /\ locals' = SubSeq(locals, 1, k - 1) \o SubSeq(locals, k + 1, Len(locals))
    /\ UNCHANGED <<pc, exitKind>>
    /\ UNCHANGED notCom

\* The scope reaches its end
Scope_End ==
  /\ pc = "running"
  /\ pc' = "unwinding"
  /\ exitKind' = "end"
  /\ UNCHANGED <<locals, calls, nUninit, lockCount>>
  /\ UNCHANGED notCom

\* The surrounding code returns early with a failure (`?` on an Err)
Scope_EarlyReturn ==
  /\ pc = "running"
  /\ pc' = "unwinding"
  /\ exitKind' = "early"
  /\ UNCHANGED <<locals, calls, nUninit, lockCount>>
  /\ UNCHANGED notCom

\* Leaving the scope drops its locals in reverse declaration order
Unwind_Drop ==
  /\ pc = "unwinding"
  /\ locals # <<>>
  /\ DropEffect(locals[Len(locals)])
  /\ locals' = SubSeq(locals, 1, Len(locals) - 1)
  /\ UNCHANGED <<pc, exitKind>>
  /\ UNCHANGED notCom

Unwind_Done ==
  /\ pc = "unwinding"
  /\ locals = <<>>
  /\ pc' = "done"
  /\ UNCHANGED <<exitKind, locals, calls, nUninit, lockCount>>
  /\ UNCHANGED notCom

\* ---------------------------------------------- claims on COM guards
InLocals(i) == \E k \in 1..Len(locals) : locals[k] = i
CallsOf(fn) == {i \in 1..Len(calls) : calls[i].fn = fn}

\* C3: a CoUninitializeGuard exists only after CoInitializeEx reported
\* success; CoUninitialize is invoked exactly once for every guard when its
\* scope ends (by early disposal, at the scope's end or on an early failure
\* return) and not before; it is never invoked for a call that returned Err.
C3_UninitOncePerGuard ==
  /\ \A i \in CallsOf("CoInitializeEx") :
       LET c == calls[i] IN
         /\ (c.made > 0 \/ InLocals(i)) => c.ok
         /\ ~c.ok => c.released = <<>>
         /\ (c.ok /\ InLocals(i)) => c.released = <<>>
         /\ (c.ok /\ ~InLocals(i)) => Len(c.released) = 1
         /\ (pc = "done" /\ c.ok) => Len(c.released) = 1
  /\ nUninit = Cardinality({i \in CallsOf("CoInitializeEx") :
                              calls[i].ok /\ ~InLocals(i)})

C3_Witness ==
  /\ pc = "done"
  /\ exitKind = "early"
  /\ nUninit = 1
  /\ \E i, j \in CallsOf("CoInitializeEx") :
       /\ i < j
       /\ calls[i].ok /\ Len(calls[i].released) = 1
       /\ ~calls[j].ok /\ calls[j].released = <<>>

\* C4: CoInitializeEx returns Ok(guard carrying the status) exactly for the
\* statuses S_OK, S_FALSE and RPC_E_CHANGED_MODE; for every other status it
\* returns Err(status), the code unchanged, and constructs no guard.
C4_InitStatusMapping ==
  \A i \in CallsOf("CoInitializeEx") :
    LET c == calls[i] IN
      /\ c.ok <=> c.raw \in {S_OK, S_FALSE, RPC_E_CHANGED_MODE}
      /\ c.ok => /\ c.guard.kind = "CoUninitializeGuard"
                 /\ c.guard.hr = c.raw
                 /\ c.made = 1
      /\ ~c.ok => /\ c.err = c.raw
                  /\ c.guard = NoGuard
                  /\ c.made = 0

C4_Witness ==
  \E i \in CallsOf("CoInitializeEx") :
    /\ calls[i].raw = RPC_E_CHANGED_MODE
    /\ calls[i].ok
    /\ calls[i].guard.hr = RPC_E_CHANGED_MODE
    /\ InLocals(i)

\* C9: CoLockObjectExternal calls the native primitive with (obj, TRUE, 0);
\* it returns a guard bound to obj exactly when the status is success and
\* Err(status) with no guard otherwise; the unlock of the guard's drop targets
\* the object that was locked and fires once per guard, so the locks the
\* native layer holds on an object are those of the live guards.
C9_LockGuard ==
  /\ \A i \in CallsOf("CoLockObjectExternal") :
       LET c == calls[i] IN
         /\ c.nargs = <<c.arg, 1, 0>>
         /\ c.ok <=> c.raw = S_OK
         /\ c.ok => /\ c.guard.kind = "CoLockObjectExternalGuard"
                    /\ c.guard.obj = c.arg
         /\ ~c.ok => /\ c.err = c.raw
                     /\ c.guard = NoGuard
                     /\ c.made = 0
                     /\ c.released = <<>>
                     /\ ~InLocals(i)
         /\ (c.ok /\ InLocals(i)) => c.released = <<>>
         /\ (c.ok /\ ~InLocals(i)) => c.released = <<c.arg>>
  /\ \A o \in Objects :
       lockCount[o] = Cardinality({i \in CallsOf("CoLockObjectExternal") :
                                     InLocals(i) /\ calls[i].arg = o})

C9_Witness ==
  /\ pc = "done"
  /\ \E i, j \in CallsOf("CoLockObjectExternal") :
       /\ calls[i].ok /\ calls[i].released = <<calls[i].arg>>
       /\ calls[j].ok /\ calls[j].released = <<calls[j].arg>>
       /\ calls[i].arg # calls[j].arg

\* ======================================================= task memory
MaxBlock == 2      \* blocks the native allocator can hand out, 1..MaxBlock

Blocks == 1..MaxBlock
Pointers == {NULL} \cup Blocks
Sizes == 0..MaxMap

\* CoTaskMemAlloc on the pointer the native allocator returned; the thread's
\* last-error is not consulted
CoTaskMemAlloc_lastError(p, le) == IF p = NULL THEN Err(le) ELSE Ok(p)
CoTaskMemAlloc(p, le) == IF p = NULL THEN Err(E_OUTOFMEMORY) ELSE Ok(p)

\* CoTaskMemRealloc on the pointer the native allocator returned
CoTaskMemRealloc(p, le) == IF p = NULL THEN Err(E_OUTOFMEMORY) ELSE Ok(p)

\* CoTaskMemFree(pv): the native deallocator calls it makes
CoTaskMemFree(pv) == <<pv>>

\* What ends the caller's scope does to the pointers it holds: a raw
\* *mut u8 has no Drop, so no deallocator call is made
ScopeEndFrees_guarded(ps) == ps \ {NULL}
ScopeEndFrees(ps) == {}

MInit ==
  /\ mpc = "running"
  /\ heap = [b \in Blocks |-> "unused"]
  /\ ptrs = {}
  /\ freeCalls = [q \in Pointers |-> 0]
  /\ callerFrees = [q \in Pointers |-> 0]
  /\ mret = [op |-> "none", pv |-> NULL, cb |-> 0, native |-> NULL, res |-> NoResult]
  /\ strBlocks = {}

UnusedBlocks == {b \in Blocks : heap[b] = "unused"}
TotalFrees == SumOver(callerFrees, Pointers)

\* let p = CoTaskMemAlloc(cb);  the native allocator returns null or a block
\* it has not handed out before
Call_CoTaskMemAlloc ==
  \E cb \in Sizes, p \in {NULL} \cup UnusedBlocks, le \in ErrorCodes :
    /\ mpc = "running"
    /\ LET r == CoTaskMemAlloc(p, le) IN
         /\ mret' = [op |-> "CoTaskMemAlloc", pv |-> NULL, cb |-> cb,
                     native |-> p, res |-> r]
         /\ ptrs' = IF r.tag = "Ok" THEN ptrs \cup {r.val} ELSE ptrs
    /\ heap' = IF p # NULL THEN [heap EXCEPT ![p] = "live"] ELSE heap
    /\ lastError' = le
    /\ UNCHANGED <<mpc, freeCalls, callerFrees, strBlocks>>
    /\ UNCHANGED notMem

\* let p = CoTaskMemRealloc(pv, cb);  the native allocator returns null (the
\* old block stays as it was), pv itself, or a new block after moving the
\* old one
Call_CoTaskMemRealloc ==
  \E pv \in {NULL} \cup ptrs, cb \in Sizes, le \in ErrorCodes :
    \E p \in {NULL} \cup UnusedBlocks \cup ({pv} \cap {b \in Blocks : heap[b] = "live"}) :
      /\ mpc = "running"
      /\ LET r == CoTaskMemRealloc(p, le) IN
           /\ mret' = [op |-> "CoTaskMemRealloc", pv |-> pv, cb |-> cb,
                       native |-> p, res |-> r]
           /\ ptrs' = IF r.tag = "Ok" THEN ptrs \cup {r.val} ELSE ptrs
      /\ heap' = IF p = NULL \/ p = pv THEN heap
                 ELSE [b \in Blocks |->
                         IF b = p THEN "live"
                         ELSE IF b = pv /\ heap[b] = "live" THEN "moved"
                         ELSE heap[b]]
      /\ lastError' = le
      /\ UNCHANGED <<mpc, freeCalls, callerFrees, strBlocks>>
      /\ UNCHANGED notMem

\* CoTaskMemFree(pv) on a pointer the caller holds, or on null
Call_CoTaskMemFree ==
  \E pv \in {NULL} \cup ptrs :
    /\ mpc = "running"
    /\ TotalFrees < MaxCalls
    /\ LET fs == CoTaskMemFree(pv) IN
         /\ freeCalls' = [q \in Pointers |->
              freeCalls[q] + Cardinality({k \in 1..Len(fs) : fs[k] = q})]
         /\ heap' = [b \in Blocks |->
              IF heap[b] = "live" /\ (\E k \in 1..Len(fs) : fs[k] = b)
                THEN "freed" ELSE heap[b]]
    /\ callerFrees' = [callerFrees EXCEPT ![pv] = @ + 1]
    /\ mret' = [op |-> "CoTaskMemFree", pv |-> pv, cb |-> 0, native |-> NULL,
                res |-> OkUnit]
    /\ UNCHANGED <<mpc, ptrs, lastError, strBlocks>>
    /\ UNCHANGED notMem

\* The caller's scope ends
Mem_ScopeEnd ==
  /\ mpc = "running"
  /\ mpc' = "done"
  /\ LET fs == ScopeEndFrees(ptrs) IN
       /\ freeCalls' = [q \in Pointers |-> IF q \in fs THEN freeCalls[q] + 1 ELSE freeCalls[q]]
       /\ heap' = [b \in Blocks |-> IF heap[b] = "live" /\ b \in fs THEN "freed" ELSE heap[b]]
  /\ UNCHANGED <<ptrs, callerFrees, mret, lastError, strBlocks>>
  /\ UNCHANGED notMem

\* ---------------------------------------------- claims on task memory
\* the blocks the native allocator has returned and not moved since
Returned == {b \in Blocks : heap[b] \in {"live", "freed"}}

\* C7 as stated: every block the native allocator returned is freed with
\* CoTaskMemFree exactly once when the owner's scope ends: never twice, and
\* none is left unfreed.
C7_FreedExactlyOnce ==
  /\ \A b \in Blocks : freeCalls[b] <= 1
  /\ mpc = "done" => \A b \in Returned : freeCalls[b] = 1

\* C7 as amended: CoTaskMemAlloc and CoTaskMemRealloc hand the block to the
\* caller as a raw pointer, with no guard; CoTaskMemFree is invoked on a
\* pointer once per CoTaskMemFree(pv) call the caller makes and at no other
\* time, the end of the scope included.
C7_FreedOnlyByCaller ==
  /\ \A q \in Pointers : freeCalls[q] = callerFrees[q]
  /\ \A b \in Blocks : heap[b] = "freed" => callerFrees[b] > 0
  /\ mret.op \in {"CoTaskMemAlloc", "CoTaskMemRealloc"} /\ mret.res.tag = "Ok" =>
       mret.res.val \in ptrs

C7_Witness ==
  /\ mpc = "done"
  /\ \E b, c \in Returned : heap[b] = "live" /\ freeCalls[b] = 0 /\ freeCalls[c] = 2

\* C8: CoTaskMemAlloc and CoTaskMemRealloc return Err(E_OUTOFMEMORY) exactly
\* when the native allocator returns null, whatever the last-error is, and
\* Ok(p) with the non-null pointer otherwise; null is never handed to the
\* caller and the call makes no deallocator call.
C8_NullIsOutOfMemory ==
  /\ mret.op \in {"CoTaskMemAlloc", "CoTaskMemRealloc"} =>
       /\ mret.native = NULL => mret.res = Err(E_OUTOFMEMORY)
       /\ mret.native # NULL => mret.res = Ok(mret.native)
  /\ NULL \notin ptrs
  /\ SumOver(freeCalls, Pointers) = TotalFrees

C8_Witness ==
  /\ mret.op = "CoTaskMemRealloc"
  /\ mret.pv # NULL
  /\ mret.native = NULL
  /\ mret.res = Err(E_OUTOFMEMORY)
  /\ lastError # ERROR_SUCCESS

\* ---------------------------------------------------- StringFromCLSID
\* The CLSIDs asked for, and the string the native call writes for one: the
\* UTF-16 units of "{", the class and "}", without the terminating zero
Clsids == {65, 66}
\* the number of strings the native StringFromCLSID may allocate in one run
MaxStr == 1
ClsidString(clsid) == <<123, clsid, 125>>
\* what a read of memory that is not a live block can give
Junk == {<<>>, <<125>>}

\* StringFromCLSID on the status of the native call and the pointer it left
\* in pstr: the result, and the steps taken on the block in order.
\* WString::from_wchars_nullt(pstr) copies the string out (a read of the
\* block), CoTaskMemFree(pstr) frees it, name.to_string() works on the copy.
StringFromCLSID_freeFirst(hr, pstr) ==
  LET r == ok_to_hrresult(hr) IN
  IF r.tag = "Ok"
    THEN [ok |-> TRUE, err |-> S_OK,
          steps |-> <<[op |-> "free", p |-> pstr], [op |-> "read", p |-> pstr]>>]
    ELSE [ok |-> FALSE, err |-> r.val, steps |-> <<>>]
StringFromCLSID(hr, pstr) ==
  LET r == ok_to_hrresult(hr) IN
  IF r.tag = "Ok"
    THEN [ok |-> TRUE, err |-> S_OK,
          steps |-> <<[op |-> "read", p |-> pstr], [op |-> "free", p |-> pstr]>>]
    ELSE [ok |-> FALSE, err |-> r.val, steps |-> <<>>]

\* The native frees among the steps: each CoTaskMemFree(p) step, expanded to
\* the deallocator calls CoTaskMemFree makes
RECURSIVE StepFrees(_)
StepFrees(steps) ==
  IF steps = <<>> THEN <<>>
  ELSE (IF Head(steps).op = "free" THEN CoTaskMemFree(Head(steps).p) ELSE <<>>)
         \o StepFrees(Tail(steps))
\* The reads among the steps that come after a free of the same pointer, or
\* that go through the null pointer
BadReads(steps) ==
  {k \in 1..Len(steps) :
     /\ steps[k].op = "read"
     /\ \/ steps[k].p = NULL
        \/ \E j \in 1..(k - 1) : steps[j].op = "free" /\ steps[j].p = steps[k].p}
Reads(steps) == {k \in 1..Len(steps) : steps[k].op = "read"}

\* let s = StringFromCLSID(&clsid);  on success the native call allocates a
\* block, writes the string into it and leaves its address in pstr; on
\* failure pstr stays null
Call_StringFromCLSID ==
  \E clsid \in Clsids, hr \in LockStatuses, junk \in Junk :
    \E p \in IF hr = S_OK THEN UnusedBlocks ELSE {NULL} :
      /\ mpc = "running"
      /\ Cardinality(strBlocks) < MaxStr
      /\ LET r == StringFromCLSID(hr, p)
             fs == StepFrees(r.steps)
             name == IF Reads(r.steps) = {} THEN <<>>
                     ELSE IF BadReads(r.steps) # {} THEN junk
                     ELSE ClsidString(clsid) IN
           /\ mret' = [op |-> "StringFromCLSID", pv |-> NULL, cb |-> 0,
                       native |-> p, res |-> IF r.ok THEN Ok(name) ELSE Err(r.err),
                       clsid |-> clsid, hr |-> hr, steps |-> r.steps,
                       badReads |-> Cardinality(BadReads(r.steps))]
           /\ freeCalls' = [q \in Pointers |->
                freeCalls[q] + Cardinality({k \in 1..Len(fs) : fs[k] = q})]
           /\ callerFrees' = [q \in Pointers |->
                callerFrees[q] + Cardinality({k \in 1..Len(r.steps) :
                                   r.steps[k].op = "free" /\ r.steps[k].p = q})]
           /\ heap' = [b \in Blocks |->
                IF b = p
                  THEN (IF \E k \in 1..Len(fs) : fs[k] = b THEN "freed" ELSE "live")
                  ELSE heap[b]]
      /\ strBlocks' = strBlocks \cup ({p} \ {NULL})
      /\ UNCHANGED <<mpc, ptrs, lastError>>
      /\ UNCHANGED notMem

\* C12: when the native call succeeds, StringFromCLSID first copies the
\* string out of the native block, then invokes CoTaskMemFree on that block
\* exactly once, and does not read the block after the free; when the native
\* call fails it returns Err(status) and neither reads nor frees the pointer.
C12_CopyThenFree ==
  /\ mret.op = "StringFromCLSID" =>
       /\ mret.res.tag = "Ok" <=> mret.hr = S_OK
       /\ mret.res.tag = "Ok" =>
            /\ mret.steps = <<[op |-> "read", p |-> mret.native],
                              [op |-> "free", p |-> mret.native]>>
            /\ mret.native # NULL
            /\ mret.res.val = ClsidString(mret.clsid)
            /\ mret.badReads = 0
       /\ mret.res.tag = "Err" =>
            /\ mret.res.val = mret.hr
            /\ mret.steps = <<>>
            /\ mret.native \notin strBlocks
  /\ \A b \in strBlocks :
       /\ freeCalls[b] = 1
       /\ heap[b] = "freed"
       /\ b \notin ptrs

C12_Witness ==
  /\ mret.op = "StringFromCLSID"
  /\ mret.res.tag = "Ok"
  /\ mret.res.val = ClsidString(66)
  /\ heap[mret.native] = "freed"
  /\ freeCalls[mret.native] = 1
  /\ strBlocks = {mret.native}

MNext ==
  \/ Call_CoTaskMemAlloc
  \/ Call_CoTaskMemRealloc
  \/ Call_CoTaskMemFree
  \/ Call_StringFromCLSID
  \/ Mem_ScopeEnd

\* ==================================================== COM references
MaxRefs == 3       \* live reference values
MaxExt == 1        \* references code outside the wrapper holds on an object

\* The base interface value an ITaskbarList3 holds: ITaskbarList2, and
\* through it ITaskbarList and IUnknown with the pointer to the object
ITaskbarList2_from(ppv) == [ppv |-> ppv]
\* Clone of the base: IUnknown::clone calls AddRef and copies the pointer
ITaskbarList2_clone(b) ==
  [val |-> [ppv |-> b.ppv], natives |-> <<[fn |-> "AddRef", obj |-> b.ppv]>>]
\* Drop of the base: IUnknown's drop calls Release on a non-null pointer
ITaskbarList2_drop(b) ==
  IF b.ppv # NULL THEN <<[fn |-> "Release", obj |-> b.ppv]>> ELSE <<>>

\* From<PPComVT<ITaskbarList3VT>> for ITaskbarList3
ITaskbarList3_from(ppv) == [ITaskbarList2 |-> ITaskbarList2_from(ppv)]
\* ITaskbarList3::ppv
ppv(self) == self.ITaskbarList2.ppv

\* #[derive(Clone)] on ITaskbarList3: the clone of its one field
ITaskbarList3_clone_bitwise(self) == [val |-> self, natives |-> <<>>]
ITaskbarList3_clone(self) ==
  LET c == ITaskbarList2_clone(self.ITaskbarList2) IN
    [val |-> [ITaskbarList2 |-> c.val], natives |-> c.natives]

\* Drop of an ITaskbarList3: it has no Drop of its own, its field is dropped
ITaskbarList3_drop(self) == ITaskbarList2_drop(self.ITaskbarList2)

\* com::funcs::hr_to_winresult
hr_to_winresult(hr) == IF hr = S_OK THEN OkUnit ELSE Err(hr)

Methods == {"RegisterTab", "SetProgressState", "SetProgressValue",
            "SetTabActive", "SetTabOrder"}

\* the non-null reference values, one per object
RefValues == {ITaskbarList3_from(o) : o \in Objects}

RInit ==
  /\ refCount = [o \in Objects |-> 0]
  /\ objState = [o \in Objects |-> "none"]
  /\ extRefs = [o \in Objects |-> 0]
  /\ refs = [v \in RefValues |-> 0]
  /\ deadCalls = 0
  /\ rret = [op |-> "none", obj |-> NULL, before |-> 0, after |-> 0, res |-> NoResult]

\* The native layer applying a sequence of AddRef / Release calls: the count
\* moves by one per call, an object whose count reaches zero is destroyed,
\* and a call on a destroyed object is counted
RECURSIVE CountAfter(_, _, _)
CountAfter(n, o, ns) ==
  IF ns = <<>> THEN n
  ELSE LET c == Head(ns)
           m == IF c.obj # o \/ n = 0 THEN n
                ELSE IF c.fn = "AddRef" THEN n + 1 ELSE n - 1
       IN CountAfter(m, o, Tail(ns))

RECURSIVE DeadAfter(_, _, _)
DeadAfter(n, o, ns) ==
  IF ns = <<>> THEN 0
  ELSE LET c == Head(ns)
           m == IF c.obj # o \/ n = 0 THEN n
                ELSE IF c.fn = "AddRef" THEN n + 1 ELSE n - 1
       IN (IF c.obj = o /\ n = 0 THEN 1 ELSE 0) + DeadAfter(m, o, Tail(ns))

ApplyNatives(ns) ==
  /\ refCount' = [o \in Objects |->
       IF objState[o] = "alive" THEN CountAfter(refCount[o], o, ns) ELSE refCount[o]]
  /\ objState' = [o \in Objects |->
       IF objState[o] = "alive" /\ CountAfter(refCount[o], o, ns) = 0
         THEN "destroyed" ELSE objState[o]]
  /\ deadCalls' = deadCalls
       + SumOver([o \in Objects |->
            IF objState[o] = "alive" THEN DeadAfter(refCount[o], o, ns)
            ELSE Cardinality({k \in 1..Len(ns) : ns[k].obj = o})], Objects)

\* the reference values the caller holds, and how many
Live == {v \in RefValues : refs[v] > 0}
TotalRefs == SumOver(refs, RefValues)

\* CoCreateInstance::<ITaskbarList3>(clsid, None, ctx): on success the native
\* layer creates an object holding one reference, which the new value owns
Call_CoCreateInstance ==
  \E o \in {x \in Objects : objState[x] = "none"}, hr \in LockStatuses :
    /\ TotalRefs < MaxRefs
    /\ LET r == ok_to_hrresult(hr) IN
         IF r.tag = "Ok"
           THEN /\ refs' = [refs EXCEPT ![ITaskbarList3_from(o)] = @ + 1]
                /\ refCount' = [refCount EXCEPT ![o] = 1]
                /\ objState' = [objState EXCEPT ![o] = "alive"]
                /\ rret' = [op |-> "create", obj |-> o, before |-> 0, after |-> 1,
                            res |-> OkUnit]
           ELSE /\ rret' = [op |-> "create", obj |-> NULL, before |-> 0, after |-> 0,
                            res |-> r]
                /\ UNCHANGED <<refs, refCount, objState>>
    /\ UNCHANGED <<extRefs, deadCalls>>
    /\ UNCHANGED notRef

\* let b = a.clone()
Call_clone ==
  \E v \in Live :
    /\ TotalRefs < MaxRefs
    /\ LET c == ITaskbarList3_clone(v)
           o == ppv(v) IN
         /\ refs' = [refs EXCEPT ![c.val] = @ + 1]
         /\ ApplyNatives(c.natives)
         /\ rret' = [op |-> "clone", obj |-> o, before |-> refCount[o],
                     after |-> refCount'[o], res |-> OkUnit]
    /\ UNCHANGED extRefs
    /\ UNCHANGED notRef

\* A reference value goes out of scope
Call_drop ==
  \E v \in Live :
    /\ LET o == ppv(v) IN
         /\ ApplyNatives(ITaskbarList3_drop(v))
         /\ rret' = [op |-> "drop", obj |-> o, before |-> refCount[o],
                     after |-> refCount'[o], res |-> OkUnit]
    /\ refs' = [refs EXCEPT ![v] = @ - 1]
    /\ UNCHANGED extRefs
    /\ UNCHANGED notRef

\* a.RegisterTab(..), a.SetProgressState(..), ...: a call through the
\* virtual table of the object, its status mapped by hr_to_winresult
Call_method ==
  \E v \in Live, m \in Methods, hr \in LockStatuses :
    /\ LET o == ppv(v) IN
         /\ rret' = [op |-> m, obj |-> o, before |-> refCount[o],
                     after |-> refCount[o], res |-> hr_to_winresult(hr)]
         /\ deadCalls' = IF objState[o] = "alive" THEN deadCalls ELSE deadCalls + 1
    /\ UNCHANGED <<refCount, objState, extRefs, refs>>
    /\ UNCHANGED notRef

\* Code outside the wrapper takes a reference to an object
External_AddRef ==
  \E o \in Objects :
    /\ objState[o] = "alive"
    /\ extRefs[o] < MaxExt
    /\ extRefs' = [extRefs EXCEPT ![o] = @ + 1]
    /\ refCount' = [refCount EXCEPT ![o] = @ + 1]
    /\ UNCHANGED <<objState, refs, deadCalls, rret>>
    /\ UNCHANGED notRef

\* Code outside the wrapper gives a reference back
External_Release ==
  \E o \in Objects :
    /\ extRefs[o] > 0
    /\ extRefs' = [extRefs EXCEPT ![o] = @ - 1]
    /\ refCount' = [refCount EXCEPT ![o] = @ - 1]
    /\ objState' = [objState EXCEPT ![o] = IF refCount[o] = 1 THEN "destroyed" ELSE @]
    /\ UNCHANGED <<refs, deadCalls, rret>>
    /\ UNCHANGED notRef

\* ---------------------------------------------- claims on references
LiveRefs(o) == SumOver(refs, {v \in RefValues : ppv(v) = o})

\* C5: a clone raises the object's reference count by exactly one and a drop
\* lowers it by exactly one, so the count the wrapper contributes is the
\* number of live non-null reference values; an object whose count reached
\* zero is destroyed and the wrapper makes no further call on it.
C5_RefCounting ==
  /\ rret.op = "clone" => rret.after = rret.before + 1
  /\ rret.op = "drop" => rret.after = rret.before - 1
  /\ \A o \in Objects :
       /\ refCount[o] - extRefs[o] = LiveRefs(o)
       /\ objState[o] = "destroyed" <=> (objState[o] # "none" /\ refCount[o] = 0)
       /\ objState[o] = "destroyed" => LiveRefs(o) = 0
  /\ \A v \in Live : ppv(v) # NULL
  /\ deadCalls = 0

C5_Witness ==
  /\ rret.op = "drop"
  /\ objState[rret.obj] = "destroyed"
  /\ \E o \in Objects : refCount[o] = 2 /\ LiveRefs(o) = 2

RNext ==
  \/ Call_CoCreateInstance
  \/ Call_clone
  \/ Call_drop
  \/ Call_method
  \/ External_AddRef
  \/ External_Release

CNext ==
  \/ Call_CoInitializeEx
  \/ Call_CoLockObjectExternal
  \/ Drop_Guard
  \/ Scope_End
  \/ Scope_EarlyReturn
  \/ Unwind_Drop
  \/ Unwind_Done


Init == HInitAt(NULL) /\ CInit /\ MInit /\ RInit

InitHandles == HInit /\ CInit /\ MInit /\ RInit

HNext ==
  \/ Call_CloseHandle
  \/ Call_DeleteObject
  \/ Call_UnmapViewOfFile
  \/ Call_MapViewOfFile
  \/ Call_as_slice
  \/ Call_as_mut_slice

SpecHandles == InitHandles /\ [][HNext]_vars

SpecCom == Init /\ [][CNext]_vars

SpecMem == Init /\ [][MNext]_vars

SpecRef == Init /\ [][RNext]_vars
====
